---- MODULE Spec2Model ----
(***************************************************************************)
(* np_config: configuration dictionaries read from a ZooKeeper tree        *)
(* (ConfigServer, a KazooClient) with a local yaml copy (ConfigFile).      *)
(*                                                                         *)
(* ZooKeeper paths are sequences of node names: <<"a","b">> is "/a/b" and  *)
(* <<>> is the root "/".  Python values and yaml payloads are strings      *)
(* naming the value / holding the serialized text.                         *)
(***************************************************************************)
EXTENDS Integers, Sequences, FiniteSets, TLC

VARIABLES remote, loaded, startTime, files, data,
          handle, probe, scope, session, last, mirrored, calls,
          stores, threads, lock, writeFailed

vars == <<remote, loaded, startTime, files, data,
          handle, probe, scope, session, last, mirrored, calls,
          stores, threads, lock, writeFailed>>

\* the ConfigFile instances the threads of a process work on, the position
\* of each thread in __setitem__ / __delitem__ / write, and ConfigFile.lock
tvars == <<stores, threads, lock, writeFailed>>

(* ------------------------------- bounds -------------------------------- *)

\* session_start_time takes the values 0..MaxTime (one value per second)
MaxTime == 1

\* number of calls (process starts, get, set, del, fetch, backup_zk) in a run
MaxCalls == 3

\* number of node reads that raise during one backup_zk
MaxReadErrors == 1

\* number of set / del calls one thread makes
MaxOps == 2

\* the threads of a process, the ConfigFile instances they share and the
\* keys they set and delete
Threads == 1..2
Stores == 1..2
ThreadKeys == { <<"a">>, <<"c">> }

\* the ZooKeeper node paths of the model: /a, /a/b and /c
Paths == { <<"a">>, <<"a", "b">>, <<"c">> }

\* order in which get_children lists node names
NodeNames == <<"a", "b", "c">>

\* python values handed to set: None and {"cfg": 1}
Values == { "None", "{cfg: 1}" }

\* node payloads of a remote tree: created empty by ensure_path, or holding
\* the yaml text of {} or of {"cfg": 1}
Payloads == { "", "{}\n", "cfg: 1\n" }

(* ------------------------------ yaml ----------------------------------- *)

\* yaml.dump(value): the text written for a python value
yaml_dump(value) ==
    CASE value = "None"     -> "null\n...\n"
      [] value = "{}"       -> "{}\n"
      [] value = "{cfg: 1}" -> "cfg: 1\n"

\* yaml.load(text): an empty stream loads as None
yaml_load(text) ==
    CASE text = ""            -> "None"
      [] text = "null\n...\n" -> "None"
      [] text = "{}\n"        -> "{}"
      [] text = "cfg: 1\n"    -> "{cfg: 1}"

(* --------------------------- local files ------------------------------- *)

\* a key that is not in a dict
Missing == "<missing>"

\* the empty dict of ConfigFile.data, and the document of an empty file
EmptyData == [p \in Paths |-> Missing]

\* a file that is not on disk, and a file holding a yaml document
NoFile == [exists |-> FALSE, doc |-> EmptyData]
File(doc) == [exists |-> TRUE, doc |-> doc]

\* the step of a flush at which the filesystem fails
FsFaults == { "ok", "mkdir", "touch", "dump" }

\* dump_file: yaml.dump of the whole dict, entry by entry
dump_file(config) ==
    [p \in Paths |-> IF config[p] = Missing THEN Missing ELSE yaml_dump(config[p])]

\* from_file: yaml.load of the document, "or dict()" for an empty one
from_file(doc) ==
    [p \in Paths |-> IF doc[p] = Missing THEN Missing ELSE yaml_load(doc[p])]

\* ConfigFile.__init__: load the file when it exists, else start empty
ConfigFile_init(file) ==
    IF file.exists THEN from_file(file.doc) ELSE EmptyData

\* the state a handler runs on: the remote tree, ConfigFile.data, the file
\* behind it, and the handler's outcome (exception raised, value returned,
\* node reads that raised)
State(r, d, f) ==
    [remote |-> r, data |-> d, file |-> f,
     exc |-> "none", ret |-> "none", failed |-> {}]

\* ConfigFile.write: mkdir and touch run outside the try block (only when
\* the file does not exist), dump_file inside it, where OSError is swallowed
\* and the file stays as it was
ConfigFile_write(st, fs) ==
    IF st.file = NoFile /\ fs \in {"mkdir", "touch"}
    THEN [st EXCEPT !.exc = "OSError"]
    ELSE LET touched == IF st.file = NoFile THEN File(EmptyData) ELSE st.file
         IN  IF fs = "dump"
             THEN [st EXCEPT !.file = touched]
             ELSE [st EXCEPT !.file = File(dump_file(st.data))]

\* ConfigFile.__getitem__: looks the key up and returns nothing
ConfigFile_getitem(st, key) ==
    IF st.data[key] = Missing
    THEN [st EXCEPT !.exc = "KeyError"]
    ELSE [st EXCEPT !.ret = "None"]

\* ConfigFile.__setitem__: update the dict, then write
ConfigFile_setitem(st, key, value, fs) ==
    ConfigFile_write([st EXCEPT !.data[key] = value], fs)

\* ConfigFile.__delitem__: KeyError when absent, else remove and write
ConfigFile_delitem(st, key, fs) ==
    IF st.data[key] = Missing
    THEN [st EXCEPT !.exc = "KeyError"]
    ELSE ConfigFile_write([st EXCEPT !.data[key] = Missing], fs)

(* ---------------------------- ZooKeeper -------------------------------- *)

\* a path with no node
NoNode == "<no node>"

\* the trees ZooKeeper can hold: a node exists only under an existing parent
IsTree(r) ==
    \A p \in Paths :
        r[p] # NoNode /\ Len(p) > 1 => r[SubSeq(p, 1, Len(p) - 1)] # NoNode

\* KazooClient.exists
exists(r, key) == r[key] # NoNode

\* p is key or an ancestor of key
IsPrefix(p, key) == Len(p) <= Len(key) /\ SubSeq(key, 1, Len(p)) = p

\* KazooClient.ensure_path: create the missing nodes of the path, empty
ensure_path(r, key) ==
    [p \in Paths |-> IF IsPrefix(p, key) /\ r[p] = NoNode THEN "" ELSE r[p]]

\* KazooClient.get_children: the names of the existing children, in order
get_children(r, parent) ==
    SelectSeq(NodeNames,
              LAMBDA n : Append(parent, n) \in Paths /\ r[Append(parent, n)] # NoNode)

\* KazooClient.delete(key, recursive=True): the node and all below it
kazoo_delete_recursive(st, key) ==
    [st EXCEPT !.remote = [p \in Paths |->
                              IF IsPrefix(key, p) THEN NoNode ELSE st.remote[p]]]

\* KazooClient.delete (not recursive): NotEmptyError for a node with children
kazoo_delete(st, key) ==
    IF get_children(st.remote, key) # <<>>
    THEN [st EXCEPT !.exc = "NotEmptyError"]
    ELSE [st EXCEPT !.remote[key] = NoNode]

(* --------------------------- ConfigServer ------------------------------ *)

\* ConfigServer.__new__ without the host_responsive test: always a client
ConfigServer_new_noProbe(ping) == "server"

\* ConfigServer.__new__: the backup ConfigFile when the ping fails
ConfigServer_new(ping) == IF ~ping THEN "backup" ELSE "server"

\* "if value is None: value = dict()"
or_dict(value) == IF value = "None" THEN "{}" ELSE value

\* ConfigServer.__getitem__ without "self.backup[key] = value"
ConfigServer_getitem_noMirror(st, key, fs) ==
    IF exists(st.remote, key)
    THEN [st EXCEPT !.ret = or_dict(yaml_load(st.remote[key]))]
    ELSE [st EXCEPT !.exc = "KeyError"]

\* ConfigServer.__getitem__
ConfigServer_getitem(st, key, fs) ==
    IF exists(st.remote, key)
    THEN LET value == or_dict(yaml_load(st.remote[key]))
             st1   == ConfigFile_setitem(st, key, value, fs)
         IN  IF st1.exc # "none" THEN st1 ELSE [st1 EXCEPT !.ret = value]
    ELSE [st EXCEPT !.exc = "KeyError"]

\* ConfigServer.__setitem__ without "if value is None: value = dict()"
ConfigServer_setitem_keepNone(st, key, value0, fs) ==
    LET r1 == ensure_path(st.remote, key)
        r2 == [r1 EXCEPT ![key] = yaml_dump(value0)]
    IN  ConfigFile_setitem([st EXCEPT !.remote = r2], key, value0, fs)

\* ConfigServer.__setitem__
ConfigServer_setitem(st, key, value0, fs) ==
    LET value == or_dict(value0)
        r1    == ensure_path(st.remote, key)
        r2    == [r1 EXCEPT ![key] = yaml_dump(value)]
    IN  ConfigFile_setitem([st EXCEPT !.remote = r2], key, value, fs)

\* ConfigServer.__delitem__ with "del self.backup[key]" outside the
\* exists test
ConfigServer_delitem_alwaysBackup(st, key, fs) ==
    LET st1 == IF exists(st.remote, key) THEN kazoo_delete(st, key) ELSE st
    IN  IF st1.exc # "none" THEN st1 ELSE ConfigFile_delitem(st1, key, fs)

\* ConfigServer.__delitem__
ConfigServer_delitem(st, key, fs) ==
    IF exists(st.remote, key)
    THEN LET st1 == kazoo_delete(st, key)
         IN  IF st1.exc # "none" THEN st1 ELSE ConfigFile_delitem(st1, key, fs)
    ELSE st

\* ConfigServer.__enter__ / ConfigFile.__enter__: what the with statement
\* binds, and whether a session is started
ConfigServer_enter(h, up) ==
    IF h = "server" /\ up THEN [scope |-> "server", session |-> TRUE]
    ELSE [scope |-> "backup", session |-> FALSE]

\* ConfigServer.__exit__ leaving a started session as it is
ConfigServer_exit_noStop(h, started) == started

\* ConfigServer.__exit__: self.stop() ends the session of the client the
\* with statement entered; ConfigFile.__exit__ has no session to end
ConfigServer_exit(h, started) == IF h = "server" THEN FALSE ELSE started

\* the session left by "with ConfigServer() ...:" once the block is over
ScopedSession(ping, up) ==
    ConfigServer_exit(ConfigServer_new(ping),
                      ConfigServer_enter(ConfigServer_new(ping), up).session)

\* ConfigServer.__exit__ stops the client; ConfigFile.__exit__ writes
Handle_exit(h, st, fs) ==
    IF h = "backup" THEN ConfigFile_write(st, fs) ELSE st

(* ----------------------------- backup_zk ------------------------------- *)

\* backup_zk.backup recording a value only at a path the backup does not
\* hold yet, and walking the children of a path it holds
RECURSIVE backup_skipKnown(_, _, _, _, _, _)
backup_skipKnown(st, parent, keys, f1, f2, fs) ==
    IF st.exc # "none" \/ keys = <<>> THEN st
    ELSE LET path  == Append(parent, Head(keys))
             value == st.remote[path]
             st1 ==
                IF path \in f1
                THEN [st EXCEPT !.failed = @ \cup {path}]
                ELSE IF value # "" /\ st.data[path] = Missing
                THEN IF path \in f2
                     THEN [st EXCEPT !.exc = "ReadError", !.failed = @ \cup {path}]
                     ELSE ConfigFile_setitem(st, path, yaml_load(value), fs)
                ELSE backup_skipKnown(st, path, get_children(st.remote, path),
                                      f1, f2, fs)
         IN  backup_skipKnown(st1, parent, Tail(keys), f1, f2, fs)

\* backup_zk.backup: the loop over get_children(parent), keys being the
\* names still to visit.  Reads of the paths in f1 raise at the guarded
\* zk.get, reads of the paths in f2 raise at the second, unguarded zk.get.
RECURSIVE backup(_, _, _, _, _, _)
backup(st, parent, keys, f1, f2, fs) ==
    IF st.exc # "none" \/ keys = <<>> THEN st
    ELSE LET path  == Append(parent, Head(keys))
             value == st.remote[path]
             st1 ==
                IF path \in f1
                THEN [st EXCEPT !.failed = @ \cup {path}]
                ELSE IF value # ""
                THEN IF path \in f2
                     THEN [st EXCEPT !.exc = "ReadError", !.failed = @ \cup {path}]
                     ELSE ConfigFile_setitem(st, path, yaml_load(value), fs)
                ELSE backup(st, path, get_children(st.remote, path), f1, f2, fs)
         IN  backup(st1, parent, Tail(keys), f1, f2, fs)

\* backup_zk(): ConfigServer() may be the backup ConfigFile (return at once);
\* otherwise "with zk:" enters zk and walks from the root with zk itself,
\* whatever __enter__ returned; a client that did not start raises on
\* get_children
backup_zk(st, ping, up, f1, f2, fs) ==
    IF ConfigServer_new(ping) = "backup" THEN st
    ELSE IF ~ConfigServer_enter("server", up).session
    THEN [st EXCEPT !.exc = "ConnectionClosedError"]
    ELSE backup(st, <<>>, get_children(st.remote, <<>>), f1, f2, fs)

(* ------------------------------- fetch --------------------------------- *)

\* from_zk: with ConfigServer() as zk: return zk[path]
from_zk(st, ping, up, path, fs) ==
    LET h   == ConfigServer_new(ping)
        zk  == ConfigServer_enter(h, up).scope
        st1 == IF zk = "server" THEN ConfigServer_getitem(st, path, fs)
               ELSE ConfigFile_getitem(st, path)
        st2 == Handle_exit(h, [st1 EXCEPT !.exc = "none"], fs)
    IN  IF st2.exc # "none" THEN st2 ELSE [st2 EXCEPT !.exc = st1.exc]

\* the arguments handed to fetch.  kind: a Mapping, a str, a pathlib.Path,
\* or anything else (an int, None).  text: the characters of a str or Path.
\* file: what pathlib finds at the resolved path: "no" (not a file, no
\* suffix), an existing .yaml, .json or .txt file, or a suffixed name with
\* no file ("absent").  val: the content of a Mapping.
NoArg == [kind |-> "none", text |-> <<>>, file |-> "no", val |-> Missing]

\* the strings of the model: "/a", "a", "a\b", "\c" and ""
StrArgs == { <<"/", "a">>, <<"a">>, <<"a", "\\", "b">>, <<"\\", "c">>, <<>> }

FileKinds == { "yaml", "json", "txt", "absent" }

FetchArgs ==
    { [NoArg EXCEPT !.kind = "mapping", !.val = v] : v \in {"{}", "{cfg: 1}"} }
    \cup { [NoArg EXCEPT !.kind = "other"] }
    \cup { [NoArg EXCEPT !.kind = k, !.text = <<"a">>, !.file = f] :
                k \in {"str", "path"}, f \in FileKinds }
    \cup { [NoArg EXCEPT !.kind = "path", !.text = <<"/", "a">>] }
    \cup { [NoArg EXCEPT !.kind = "str", !.text = t] : t \in StrArgs }

\* arg.replace("\\", "/")
str_replace(text) ==
    [i \in 1..Len(text) |-> IF text[i] = "\\" THEN "/" ELSE text[i]]

\* path_str of fetch: "/" put in front unless it is there (text not empty)
path_str(text) ==
    LET replaced == str_replace(text)
    IN  IF replaced[1] # "/" THEN <<"/">> \o replaced ELSE replaced

\* the node names along a ZooKeeper path string
zk_nodes(str) == SelectSeq(str, LAMBDA c : c # "/")

\* from_file(path) of fetch: open (FileNotFoundError without a file), then
\* by suffix yaml.load(f) or dict(), json.load(f, path) (a TypeError: load
\* takes one positional argument), or ValueError; the .yaml file of the
\* model holds "cfg: 1\n"
from_file_path(st, file) ==
    CASE file = "absent" -> [st EXCEPT !.exc = "FileNotFoundError"]
      [] file = "yaml"   -> [st EXCEPT !.ret = or_dict(yaml_load("cfg: 1\n"))]
      [] file = "json"   -> [st EXCEPT !.exc = "TypeError"]
      [] file = "txt"    -> [st EXCEPT !.exc = "ValueError"]

\* "return dict(**config)": TypeError when config is None
dict_of(st) ==
    IF st.exc # "none" THEN st
    ELSE IF st.ret = "None" THEN [st EXCEPT !.exc = "TypeError", !.ret = "none"]
    ELSE st

\* the branch of fetch an argument takes: "config" names no value when a
\* Path is neither a file nor suffixed, and path_str[0] raises on ""
fetch_branch(arg) ==
    IF arg.kind = "mapping" THEN "mapping"
    ELSE IF arg.kind \in {"str", "path"}
    THEN IF arg.file # "no" THEN "from_file"
         ELSE IF arg.kind = "str"
         THEN IF arg.text = <<>> THEN "IndexError" ELSE "from_zk"
         ELSE "UnboundLocalError"
    ELSE "ValueError"

\* fetch
fetch(st, arg, ping, up, fs) ==
    LET branch == fetch_branch(arg)
    IN  CASE branch = "mapping"   -> dict_of([st EXCEPT !.ret = arg.val])
          [] branch = "from_file" -> dict_of(from_file_path(st, arg.file))
          [] branch = "from_zk"   ->
                dict_of(from_zk(st, ping, up, zk_nodes(path_str(arg.text)), fs))
          [] OTHER                -> [st EXCEPT !.exc = branch]

(* ------------------------------ state --------------------------------- *)

\* no set through ConfigServer is being tracked
NoSet == [path |-> <<>>, val |-> Missing]

\* the record of the last call: what was called, through which store
\* ("server": connected ConfigServer, "backup": the ping failed, "unstarted":
\* the ping succeeded and the session did not start), how it ended, and for
\* backup_zk the number of runs in a row on a started session
Last(op, via, path, val, st, nth) ==
    [op |-> op, via |-> via, path |-> path, val |-> val,
     exc |-> st.exc, ret |-> st.ret, failed |-> st.failed, nth |-> nth,
     arg |-> NoArg]

\* the store a ConfigServer() constructed now would hand to a with block
Via(h, up) ==
    IF h = "backup" THEN "backup"
    ELSE IF ConfigServer_enter(h, up).session THEN "server" ELSE "unstarted"

\* every tree ZooKeeper can hold over Paths
Trees == { r \in [Paths -> Payloads \cup {NoNode}] : IsTree(r) }

\* the trees the whole program is started on: nothing stored yet; an empty
\* node /a over a leaf /a/b, beside a leaf /c; a value at /a over a value at
\* /a/b, beside an empty /c
StartTrees ==
    { [p \in Paths |-> NoNode],
      (<<"a">> :> "") @@ (<<"a", "b">> :> "cfg: 1\n") @@ (<<"c">> :> "{}\n"),
      (<<"a">> :> "cfg: 1\n") @@ (<<"a", "b">> :> "{}\n") @@ (<<"c">> :> "") }

\* a ConfigFile instance: its dict and the file it mirrors (an index of
\* files), empty before the first set
Store(f) == [data |-> EmptyData, file |-> f]

\* a thread outside every ConfigFile call, with its set / del calls ahead
NoThread ==
    [pc |-> "idle", store |-> 1, snap |-> EmptyData, raised |-> FALSE,
     left |-> MaxOps]

\* no process has started yet: no file exists, no call was made
NotStarted ==
    /\ loaded = FALSE
    /\ startTime = 0
    /\ files = [t \in 0..MaxTime |-> NoFile]
    /\ data = EmptyData
    /\ handle = "none"
    /\ probe = FALSE
    /\ scope = "none"
    /\ session = FALSE
    /\ last = Last("none", "none", <<>>, Missing, State(remote, data, NoFile), 0)
    /\ mirrored = NoSet
    /\ calls = 0
    /\ threads = [t \in Threads |-> NoThread]
    /\ lock = 0
    /\ writeFailed = FALSE

Init ==
    /\ remote \in StartTrees
    /\ NotStarted
    /\ stores = [s \in Stores |-> Store(0)]

\* backup_zk alone, on every tree
InitJob ==
    /\ remote \in Trees
    /\ NotStarted
    /\ stores = [s \in Stores |-> Store(0)]

\* the handler's result becomes the program state
Commit(st, t) ==
    /\ remote' = st.remote
    /\ data' = st.data
    /\ files' = [files EXCEPT ![t] = st.file]

\* the state the handlers of the running process start from
Now == State(remote, data, files[startTime])

(* ------------------------------ actions -------------------------------- *)

\* the reads that raise during one backup_zk: f1 the nodes whose guarded
\* zk.get raises, f2 the nodes whose second zk.get raises
ReadFaults ==
    { f \in [f1 : SUBSET Paths, f2 : SUBSET Paths] :
        f.f1 \cap f.f2 = {} /\ Cardinality(f.f1 \cup f.f2) <= MaxReadErrors }

\* what one backup_zk can meet, given what host_responsive returned (ping)
\* and whether the session started (up): reads and flushes happen on a
\* started session only, and reads at existing nodes only
ReadFaultsOf(r, ping, up) ==
    IF ping /\ up
    THEN { f \in ReadFaults : \A p \in f.f1 \cup f.f2 : r[p] # NoNode }
    ELSE { [f1 |-> {}, f2 |-> {}] }

FsFaultsOf(ping, up) == IF ping /\ up THEN FsFaults ELSE {"ok"}

\* a process starts and imports the module: session_start_time names the
\* record file (lines 31-32), ConfigServer.backup = ConfigFile() loads it
\* (line 171), and backup_zk() runs (line 243)
Restart ==
    \E t \in startTime..MaxTime, ping \in BOOLEAN, up \in BOOLEAN :
      \E f \in ReadFaultsOf(remote, ping, up), fs \in FsFaultsOf(ping, up) :
        LET st == backup_zk(State(remote, ConfigFile_init(files[t]), files[t]),
                            ping, up, f.f1, f.f2, fs)
        IN  /\ calls < MaxCalls
            /\ ~session
            /\ startTime' = t
            /\ Commit(st, t)
            /\ loaded' = (st.exc = "none")
            /\ handle' = "none"
            /\ scope' = "none"
            /\ last' = Last("restart", Via(ConfigServer_new(ping), up), <<>>,
                            Missing, st, 1)
            /\ mirrored' = NoSet
            /\ calls' = calls + 1
            /\ session' = ScopedSession(ping, up)
            /\ UNCHANGED probe
            /\ UNCHANGED tvars

\* with ConfigServer() as store: __new__ (and __init__), then __enter__
Open ==
    \E ping \in BOOLEAN, up \in BOOLEAN :
        LET zk == ConfigServer_new(ping)
        IN  /\ loaded
            /\ handle = "none"
            /\ handle' = zk
            /\ probe' = ping
            /\ scope' = ConfigServer_enter(zk, up).scope
            /\ session' = ConfigServer_enter(zk, up).session
            /\ UNCHANGED <<remote, loaded, startTime, files, data,
                           last, mirrored, calls>>
            /\ UNCHANGED tvars

\* the with block ends: __exit__ of zk
Exit ==
    \E fs \in FsFaults :
        LET st == Handle_exit(handle, Now, fs)
        IN  /\ scope # "none"
            /\ Commit(st, startTime)
            /\ handle' = "none"
            /\ probe' = FALSE
            /\ scope' = "none"
            /\ session' = ConfigServer_exit(handle, session)
            /\ UNCHANGED <<loaded, startTime, last, mirrored, calls>>
            /\ UNCHANGED tvars

\* store[path] inside the with block
Get ==
    \E path \in Paths, fs \in FsFaults :
        LET st == IF scope = "server" THEN ConfigServer_getitem(Now, path, fs)
                  ELSE ConfigFile_getitem(Now, path)
        IN  /\ calls < MaxCalls
            /\ scope # "none"
            /\ Commit(st, startTime)
            /\ last' = Last("get", Via(handle, session), path, Missing, st, 0)
            /\ mirrored' = IF scope = "server" THEN NoSet ELSE mirrored
            /\ calls' = calls + 1
            /\ UNCHANGED <<loaded, startTime, handle, probe, scope, session>>
            /\ UNCHANGED tvars

\* store[path] = value inside the with block
Set ==
    \E path \in Paths, value \in Values, fs \in FsFaults :
        LET st == IF scope = "server" THEN ConfigServer_setitem(Now, path, value, fs)
                  ELSE ConfigFile_setitem(Now, path, value, fs)
        IN  /\ calls < MaxCalls
            /\ scope # "none"
            /\ Commit(st, startTime)
            /\ last' = Last("set", Via(handle, session), path, value, st, 0)
            /\ mirrored' = IF scope = "server" /\ st.exc = "none"
                           THEN [path |-> path, val |-> value] ELSE NoSet
            /\ calls' = calls + 1
            /\ UNCHANGED <<loaded, startTime, handle, probe, scope, session>>
            /\ UNCHANGED tvars

\* del store[path] inside the with block
Del ==
    \E path \in Paths, fs \in FsFaults :
        LET st == IF scope = "server" THEN ConfigServer_delitem(Now, path, fs)
                  ELSE ConfigFile_delitem(Now, path, fs)
        IN  /\ calls < MaxCalls
            /\ scope # "none"
            /\ Commit(st, startTime)
            /\ last' = Last("del", Via(handle, session), path, Missing, st, 0)
            /\ mirrored' = NoSet
            /\ calls' = calls + 1
            /\ UNCHANGED <<loaded, startTime, handle, probe, scope, session>>
            /\ UNCHANGED tvars

\* fetch(arg); ConfigServer() is constructed on the from_zk branch only
Fetch ==
    \E arg \in FetchArgs :
      \E ping \in BOOLEAN, up \in BOOLEAN, fs \in FsFaults :
        LET zk  == fetch_branch(arg) = "from_zk"
            st  == fetch(Now, arg, ping, up, fs)
            via == IF zk THEN Via(ConfigServer_new(ping), up) ELSE "none"
        IN  /\ calls < MaxCalls
            /\ loaded
            /\ handle = "none"
            \* no ping, session or flush happens on the other branches
            /\ zk \/ (ping /\ up /\ fs = "ok")
            /\ Commit(st, startTime)
            /\ last' = [Last("fetch", via,
                              IF zk THEN zk_nodes(path_str(arg.text)) ELSE <<>>,
                              Missing, st, 0) EXCEPT !.arg = arg]
            /\ mirrored' = IF via = "server" THEN NoSet ELSE mirrored
            /\ calls' = calls + 1
            /\ session' = IF zk THEN ScopedSession(ping, up) ELSE session
            /\ UNCHANGED <<loaded, startTime, handle, probe, scope>>
            /\ UNCHANGED tvars

\* backup_zk() called again by the running process
BackupJob ==
    \E ping \in BOOLEAN, up \in BOOLEAN :
      \E f \in ReadFaultsOf(remote, ping, up), fs \in FsFaultsOf(ping, up) :
        LET st  == backup_zk(Now, ping, up, f.f1, f.f2, fs)
            via == Via(ConfigServer_new(ping), up)
        IN  /\ calls < MaxCalls
            /\ loaded
            /\ handle = "none"
            /\ Commit(st, startTime)
            /\ last' = Last("job", via, <<>>, Missing, st,
                            IF last.op \in {"job", "restart"} /\ last.via = "server"
                               /\ via = "server"
                            THEN 2 ELSE 1)
            /\ mirrored' = NoSet
            /\ calls' = calls + 1
            /\ session' = ScopedSession(ping, up)
            /\ UNCHANGED <<loaded, startTime, handle, probe, scope>>
            /\ UNCHANGED tvars

Next ==
    \/ Restart
    \/ Open
    \/ Exit
    \/ Get
    \/ Set
    \/ Del
    \/ Fetch
    \/ BackupJob

Spec == Init /\ [][Next]_vars

NextJob ==
    \/ Restart
    \/ BackupJob

SpecJob == InitJob /\ [][NextJob]_vars

(* ------------------------- threads in write --------------------------- *)

\* "with self.lock:" entered: the lock is free
lock_free_always(holder) == TRUE

lock_free(holder) == holder = 0

\* "with self.lock:" left without releasing after a dump that raised
lock_exit_keepOnError(t, raised) == IF raised THEN t ELSE 0

\* "with self.lock:" left, normally or by an exception: the lock is free
lock_exit(t, raised) == 0

\* the outcomes of yaml.dump(config, f) on a dict read as snap when the
\* dump began and being now: the text of either when a value changed
\* meanwhile, and also RuntimeError (nothing written) when a key was added
\* or removed during the iteration
DumpOutcomes(snap, now) ==
    { [raised |-> FALSE, doc |-> dump_file(d)] : d \in {snap, now} }
    \cup IF \E p \in Paths : (snap[p] = Missing) # (now[p] = Missing)
         THEN { [raised |-> TRUE, doc |-> EmptyData] } ELSE {}

\* what the threads leave alone: the remote tree and the calls of the
\* main thread
mvars == <<remote, loaded, startTime, data, handle, probe, scope, session,
           last, mirrored, calls>>

\* thread t is at pc
At(t, pc) == threads[t].pc = pc

\* thread t moves to pc
Goto(t, pc) == threads' = [threads EXCEPT ![t].pc = pc]

\* the file of the ConfigFile thread t works on
FileOf(t) == stores[threads[t].store].file

\* ConfigFile.__setitem__ up to self.write(): super().__setitem__
SetBegin(t) ==
    \E s \in Stores, key \in ThreadKeys, value \in Values :
        /\ At(t, "idle") /\ threads[t].left > 0
        /\ stores' = [stores EXCEPT ![s].data[key] = value]
        /\ threads' = [threads EXCEPT ![t].pc = "write", ![t].store = s,
                                       ![t].left = @ - 1]
        /\ UNCHANGED <<files, lock, writeFailed>>
        /\ UNCHANGED mvars

\* ConfigFile.__delitem__ up to self.write(): KeyError for an absent key
DelBegin(t) ==
    \E s \in Stores, key \in ThreadKeys :
        /\ At(t, "idle") /\ threads[t].left > 0
        /\ IF stores[s].data[key] = Missing
           THEN /\ threads' = [threads EXCEPT ![t].left = @ - 1]
                /\ UNCHANGED stores
           ELSE /\ stores' = [stores EXCEPT ![s].data[key] = Missing]
                /\ threads' = [threads EXCEPT ![t].pc = "write", ![t].store = s,
                                               ![t].left = @ - 1]
        /\ UNCHANGED <<files, lock, writeFailed>>
        /\ UNCHANGED mvars

\* write, lines 118-120: mkdir and touch when the file does not exist;
\* their OSError leaves write and the call
WriteTouch(t) ==
    \E fs \in {"ok", "mkdir", "touch"} :
        /\ At(t, "write")
        /\ IF files[FileOf(t)].exists
           THEN fs = "ok" /\ Goto(t, "lock") /\ UNCHANGED <<files, writeFailed>>
           ELSE IF fs = "ok"
           THEN /\ files' = [files EXCEPT ![FileOf(t)] = File(EmptyData)]
                /\ Goto(t, "lock")
                /\ UNCHANGED writeFailed
           ELSE /\ Goto(t, "idle")
                /\ writeFailed' = TRUE
                /\ UNCHANGED files
        /\ UNCHANGED <<stores, lock>>
        /\ UNCHANGED mvars

\* write, line 121: with self.lock
LockAcquire(t) ==
    /\ At(t, "lock")
    /\ lock_free(lock)
    /\ lock' = t
    /\ Goto(t, "open")
    /\ UNCHANGED <<files, stores, writeFailed>>
    /\ UNCHANGED mvars

\* dump_file, lines 81-82: path.open("w") truncates the file and yaml.dump
\* starts reading the dict; an OSError is caught in write
DumpOpen(t) ==
    \E fs \in {"ok", "dump"} :
        /\ At(t, "open")
        /\ IF fs = "ok"
           THEN /\ files' = [files EXCEPT ![FileOf(t)] = File(EmptyData)]
                /\ threads' = [threads EXCEPT
                                    ![t].pc = "dump",
                                    ![t].snap = stores[threads[t].store].data]
                /\ UNCHANGED writeFailed
           ELSE /\ Goto(t, "exit")
                /\ writeFailed' = TRUE
                /\ UNCHANGED files
        /\ UNCHANGED <<stores, lock>>
        /\ UNCHANGED mvars

\* dump_file, line 84: yaml.dump(config, f) ends; a RuntimeError is not an
\* OSError and leaves write
DumpWrite(t) ==
    \E out \in DumpOutcomes(threads[t].snap, stores[threads[t].store].data) :
        /\ At(t, "dump")
        /\ IF out.raised
           THEN /\ writeFailed' = TRUE
                /\ threads' = [threads EXCEPT ![t].pc = "exit", ![t].raised = TRUE]
                /\ UNCHANGED files
           ELSE /\ files' = [files EXCEPT ![FileOf(t)] = File(out.doc)]
                /\ Goto(t, "exit")
                /\ UNCHANGED writeFailed
        /\ UNCHANGED <<stores, lock>>
        /\ UNCHANGED mvars

\* the with block of write is left and the call returns (or raises)
LockExit(t) ==
    /\ At(t, "exit")
    /\ lock' = lock_exit(t, threads[t].raised)
    /\ threads' = [threads EXCEPT ![t].pc = "idle", ![t].snap = EmptyData,
                                   ![t].raised = FALSE]
    /\ UNCHANGED <<files, stores, writeFailed>>
    /\ UNCHANGED mvars

\* the steps of thread t inside write
WriteStep(t) ==
    \/ WriteTouch(t)
    \/ LockAcquire(t)
    \/ DumpOpen(t)
    \/ DumpWrite(t)
    \/ LockExit(t)

\* two ConfigFile instances, on one file or on two
InitWrite ==
    /\ remote = [p \in Paths |-> NoNode]
    /\ NotStarted
    /\ \E f \in 0..MaxTime : stores = [s \in Stores |-> Store(IF s = 1 THEN 0 ELSE f)]

NextWrite ==
    \E t \in Threads :
        \/ SetBegin(t)
        \/ DelBegin(t)
        \/ WriteTouch(t)
        \/ LockAcquire(t)
        \/ DumpOpen(t)
        \/ DumpWrite(t)
        \/ LockExit(t)

SpecWrite == InitWrite /\ [][NextWrite]_vars

\* every thread inside write goes on running
FairSpecWrite ==
    SpecWrite /\ \A t \in Threads : WF_vars(WriteStep(t))

(* ------------------------------ claims --------------------------------- *)

\* the step is a call of op
Called(ops) == calls' = calls + 1 /\ last'.op \in ops

\* the step runs backup_zk (at a process start, or called again)
JobRun == Called({"job", "restart"})

\* ConfigFile.data when that backup_zk started
JobStartData ==
    IF last'.op = "restart" THEN ConfigFile_init(files[startTime']) ELSE data

\* q lies strictly above p
Above(q, p) == IsPrefix(q, p) /\ q # p

\* C1: after a set(P, V) through a connected ConfigServer succeeded, a get
\* of P from the backup store alone returns V (an empty mapping for None)
C1_BackupGetReturnsSetValue ==
    (last.op = "get" /\ last.via # "server" /\ mirrored # NoSet
        /\ last.path = mirrored.path)
    => (last.exc = "none" /\ last.ret = or_dict(mirrored.val))

\* C2: when the ping fails, ConfigServer() is the backup store and stays it
\* inside the with block, no session starts, and get, set, del and fetch
\* made through it leave the remote tree as it is
C2_UnresponsiveUsesBackupOnly ==
    [][ /\ (handle' # "none" /\ ~probe')
            => (handle' = "backup" /\ scope' = "backup" /\ ~session')
        /\ (Called({"get", "set", "del", "fetch"}) /\ last'.via = "backup")
            => (remote' = remote /\ ~session') ]_vars

\* C2 witness: a set made through the backup handle of a failed ping changed
\* the backup and not the remote tree
C2_Witness ==
    /\ handle = "backup" /\ ~probe
    /\ last.op = "set" /\ last.via = "backup" /\ last.exc = "none"
    /\ data[last.path] = last.val
    /\ remote[last.path] = NoNode

\* C3: fetch of a ZooKeeper path string, get, set and del end normally or
\* in KeyError / ValueError, and fetch(P) without a session, P being in the
\* backup, returns the backed-up mapping
C3_OnlyNotFoundOrInvalidInput ==
    /\ (last.op \in {"get", "set", "del"}
            \/ (last.op = "fetch" /\ last.via # "none"))
        => last.exc \in {"none", "KeyError", "ValueError"}
    /\ (last.op = "fetch" /\ last.via \in {"backup", "unstarted"}
            /\ data[last.path] # Missing)
        => (last.exc = "none" /\ last.ret = data[last.path])

\* C4: a del of P through a connected ConfigServer, P being on the remote,
\* leaves P absent from the remote tree and from the backup, and a get of P
\* from either raises KeyError
C4_DeleteRemovesFromBoth ==
    [][ (Called({"del"}) /\ last'.via = "server" /\ remote[last'.path] # NoNode)
        => LET after == State(remote', data', files'[startTime'])
           IN  /\ remote'[last'.path] = NoNode
               /\ data'[last'.path] = Missing
               /\ ConfigServer_getitem(after, last'.path, "ok").exc = "KeyError"
               /\ ConfigFile_getitem(after, last'.path).exc = "KeyError" ]_vars

\* C5: a set or del on the backup store never raises OSError, whatever step
\* of the flush fails, and the dict holds the change
C5_FlushFailureSwallowed ==
    /\ (last.op \in {"set", "del"} /\ last.via # "server")
        => last.exc # "OSError"
    /\ (last.op = "set" /\ last.via # "server")
        => (last.exc = "none" /\ data[last.path] = last.val)

\* C6: a process that starts without the service has in its backup store
\* the mapping the process before it last flushed
C6_BackupSurvivesRestart ==
    [][ (Called({"restart"}) /\ last'.via # "server" /\ files[startTime].exists)
        => data' = from_file(files[startTime].doc) ]_vars

\* the mapping C7 describes: the nodes with a non-empty payload under
\* nothing but empty nodes, with their deserialized values
ValueLeaves(r) ==
    [p \in Paths |->
        IF r[p] \notin {NoNode, ""} /\ \A q \in Paths : Above(q, p) => r[q] = ""
        THEN yaml_load(r[p]) ELSE Missing]

\* C7: backup_zk on a started session, with no read error and an empty
\* backup, leaves exactly the value leaves in the backup
C7_JobRecordsValueLeaves ==
    [][ (JobRun /\ last'.via = "server" /\ last'.failed = {}
            /\ JobStartData = EmptyData)
        => data' = ValueLeaves(remote) ]_vars

\* C8: backup_zk without a started session (the ping failed, or the session
\* did not start) returns without raising and leaves the backup as it was
C8_JobNoOpOnFallback ==
    [][ (JobRun /\ last'.via # "server")
        => (last'.exc = "none" /\ data' = JobStartData /\ remote' = remote) ]_vars

\* C9: a read error during backup_zk (no flush raising) skips that node
\* only: the job ends without raising and every value leaf that is not under
\* or at a failed node is in the backup
C9_ReadErrorSkipsOneNode ==
    [][ (JobRun /\ last'.via = "server" /\ last'.failed # {}
            /\ last'.exc # "OSError")
        => /\ last'.exc = "none"
           /\ \A p \in Paths :
                (ValueLeaves(remote)[p] # Missing
                    /\ \A q \in last'.failed : ~IsPrefix(q, p))
                => data'[p] = ValueLeaves(remote)[p] ]_vars

\* C10 as stated: a second backup_zk in a row leaves the backup mapping
\* that the first one left
C10_JobIdempotent ==
    [][ (JobRun /\ last'.nth = 2) => data' = data ]_vars

\* C10 amended: the second run leaves every entry that agrees with the
\* remote tree as it is, and leaves the whole mapping as it is when the
\* first run ended normally and skipped no node
C10_JobIdempotentAfterCleanRun ==
    [][ (JobRun /\ last'.nth = 2)
        => /\ \A p \in Paths :
                (data[p] # Missing /\ data[p] = ValueLeaves(remote)[p])
                => data'[p] = data[p]
           /\ (last.exc = "none" /\ last.failed = {}) => data' = data ]_vars

\* C10 witness: a second run in a row ended normally on a backup with entries
C10_Witness ==
    /\ last.op = "job" /\ last.nth = 2 /\ last.exc = "none"
    /\ \E p \in Paths : data[p] # Missing

\* C11: once a with block on a ConfigServer() handle is over (normally,
\* after an error inside it, or after a session start that failed), no
\* session is started: __exit__ stopped the client
C11_SessionReleasedOnExit ==
    scope = "none" => ~session

\* C11 witness: a with block on a started session in which a get raised
\* KeyError is over
C11_Witness ==
    /\ scope = "none" /\ handle = "none" /\ ~session
    /\ last.op = "get" /\ last.via = "server" /\ last.exc = "KeyError"

\* C12: a get of P through a connected ConfigServer that returns leaves in
\* the backup, at P, the value it returned; for a node with an empty payload
\* it does not raise KeyError, and what it returns and mirrors is {}
C12_GetMirrorsReturnedValue ==
    [][ (Called({"get"}) /\ last'.via = "server")
        => /\ last'.exc = "none"
                => /\ data'[last'.path] = last'.ret
                   /\ last'.ret = or_dict(yaml_load(remote[last'.path]))
           /\ remote[last'.path] = ""
                => /\ last'.exc # "KeyError"
                   /\ last'.exc = "none" => last'.ret = "{}" ]_vars

\* C12 witness: a get of a node with an empty payload returned {} and the
\* backup holds {} there
C12_Witness ==
    /\ last.op = "get" /\ last.via = "server" /\ last.exc = "none"
    /\ remote[last.path] = ""
    /\ last.ret = "{}" /\ data[last.path] = "{}"

\* C13: a set of None at P through a connected ConfigServer leaves the yaml
\* text of {} at P on the remote and {} at P in the backup, and a get of P
\* from the remote afterwards returns {}, not None and not KeyError
C13_SetNoneStoresEmptyMapping ==
    [][ (Called({"set"}) /\ last'.via = "server" /\ last'.val = "None")
        => LET after == State(remote', data', files'[startTime'])
           IN  /\ remote'[last'.path] = yaml_dump("{}")
               /\ data'[last'.path] = "{}"
               /\ ConfigServer_getitem(after, last'.path, "ok").exc = "none"
               /\ \A fs \in FsFaults :
                    LET got == ConfigServer_getitem(after, last'.path, fs)
                    IN  /\ got.exc # "KeyError"
                        /\ got.exc = "none" => got.ret = "{}" ]_vars

\* C13 witness: a set of None through a connected ConfigServer returned
C13_Witness ==
    /\ last.op = "set" /\ last.via = "server" /\ last.val = "None"
    /\ last.exc = "none"
    /\ remote[last.path] = "{}\n" /\ data[last.path] = "{}"

\* C14: on the ConfigFile, a get of P returns the value the dict holds at P
\* (the one last set and not deleted since) and raises KeyError exactly when
\* P is absent; a del of an absent P raises KeyError and leaves the dict and
\* the file as they were
C14_ConfigFileIsAMap ==
    [][ /\ (Called({"get"}) /\ last'.via # "server")
            => /\ (last'.exc = "KeyError") <=> (data[last'.path] = Missing)
               /\ data[last'.path] # Missing
                    => (last'.exc = "none" /\ last'.ret = data[last'.path])
        /\ (Called({"del"}) /\ last'.via # "server"
                /\ data[last'.path] = Missing)
            => (last'.exc = "KeyError" /\ data' = data /\ files' = files) ]_vars

\* the remote path C15 describes for a string: backslashes turned into
\* forward slashes and a leading "/" ensured
SlashPath(text) ==
    LET replaced == [i \in 1..Len(text) |->
                        IF text[i] = "\\" THEN "/" ELSE text[i]]
    IN  IF replaced = <<>> \/ Head(replaced) # "/"
        THEN <<"/">> \o replaced ELSE replaced

\* C15: fetch returns the content of a mapping; hands a str or Path that is
\* a file or has a suffix to from_file; reads any other str, normalized,
\* through a ConfigServer() with block; and raises ValueError for every
\* other argument
C15_FetchDispatch ==
    [][ Called({"fetch"})
        => LET arg  == last'.arg
               file == arg.kind \in {"str", "path"} /\ arg.file # "no"
           IN  /\ arg.kind = "mapping"
                    => (last'.exc = "none" /\ last'.ret = arg.val)
               /\ file
                    => /\ last'.exc = from_file_path(Now, arg.file).exc
                       /\ last'.ret = from_file_path(Now, arg.file).ret
               /\ (arg.kind = "str" /\ ~file)
                    => /\ last'.via \in {"server", "backup", "unstarted"}
                       /\ last'.path = zk_nodes(SlashPath(arg.text))
               /\ (arg.kind # "mapping" /\ arg.kind # "str" /\ ~file)
                    => last'.exc = "ValueError" ]_vars

\* thread t is inside the with self.lock block of write
InLock(t) == threads[t].pc \in {"open", "dump", "exit"}

\* C16: at most one thread at a time is inside the dump step of write,
\* the lock is held by that thread and by no thread outside the step, and
\* every thread that waits for the lock gets through write, also after a
\* dump that failed
C16_FlushesSerialized ==
    /\ [](/\ Cardinality({ t \in Threads : InLock(t) }) <= 1
          /\ \A t \in Threads : InLock(t) <=> lock = t)
    /\ \A t \in Threads : At(t, "lock") ~> At(t, "idle")

\* C16 witness: a thread waits for the lock while another thread, on
\* another file, is inside the dump step, after a write that failed
C16_Witness ==
    \E t, u \in Threads :
        /\ At(t, "lock") /\ At(u, "dump") /\ lock = u
        /\ FileOf(t) # FileOf(u)
        /\ writeFailed

\* C20: when no write has failed and every thread is outside its set / del
\* calls, the file of a ConfigFile that has it to itself holds the dump of
\* the dict as it is now
C20_FileHoldsMappingWhenQuiet ==
    ((\A t \in Threads : At(t, "idle")) /\ ~writeFailed)
    => \A s \in Stores :
            (/\ \A o \in Stores \ {s} : stores[o].file # stores[s].file
             /\ stores[s].data # EmptyData \/ files[stores[s].file].exists)
            => files[stores[s].file] = File(dump_file(stores[s].data))

\* C20 witness: both threads have made all their calls on one ConfigFile,
\* no write failed, and the dict holds two entries
C20_Witness ==
    /\ \A t \in Threads : At(t, "idle") /\ threads[t].left = 0
                                      /\ threads[t].store = 2
    /\ ~writeFailed
    /\ stores[1].file # stores[2].file
    /\ stores[1].data = EmptyData
    /\ \A k \in ThreadKeys : stores[2].data[k] # Missing

\* C17: a del of P through a connected ConfigServer, P not being on the
\* remote, raises nothing and leaves the remote tree, the backup dict (its
\* entry for P included) and the backup file as they were
C17_DeleteAbsentIsNoOp ==
    [][ (Called({"del"}) /\ last'.via = "server" /\ remote[last'.path] = NoNode)
        => (last'.exc = "none" /\ remote' = remote /\ data' = data
            /\ files' = files) ]_vars

\* C17 witness: a del through a connected ConfigServer of a path that is
\* not on the remote and is in the backup returned, the entry still there
C17_Witness ==
    /\ last.op = "del" /\ last.via = "server" /\ last.exc = "none"
    /\ remote[last.path] = NoNode
    /\ data[last.path] # Missing

\* every entry of the backup dict d is at a node of the tree r and holds the
\* value a get of that node returns
Agrees(r, d) ==
    \A p \in Paths :
        d[p] # Missing => (r[p] # NoNode /\ d[p] = or_dict(yaml_load(r[p])))

\* C18: get, set, del through a connected ConfigServer and backup_zk on a
\* started session keep the backup in agreement with the remote tree (an
\* empty backup agrees with every tree): no stale entry appears
C18_BackupAgreesWithRemote ==
    [][ (Called({"get", "set", "del", "job"}) /\ last'.via = "server"
            /\ Agrees(remote, data))
        => Agrees(remote', data') ]_vars

\* C18 witness: after backup_zk recorded the tree, a del through a
\* connected ConfigServer removed a node and its backup entry, and the
\* entries left agree with the remote tree
C18_Witness ==
    /\ last.op = "del" /\ last.via = "server" /\ last.exc = "none"
    /\ remote[last.path] = NoNode /\ data[last.path] = Missing
    /\ \E p \in Paths : data[p] # Missing
    /\ Agrees(remote, data)

\* C19: a get, set or del through a connected ConfigServer that raises
\* leaves the remote tree and the backup dict as they were before the call
C19_FailedCallChangesNothing ==
    [][ (Called({"get", "set", "del"}) /\ last'.via = "server"
            /\ last'.exc # "none")
        => (remote' = remote /\ data' = data) ]_vars

====
